---- MODULE Spec2Model ----
(***************************************************************************)
(* A model of the bcCaptioner overlay service: the text wrapping and label *)
(* box layout of the overlay handler, its in-memory image cache, and the   *)
(* file-backed temp store with its cleanup sweep.                          *)
(*                                                                         *)
(* Strings are sequences of one-character strings.  Measured widths are    *)
(* integers in units of 1/WidthScale pixel, so that widths need not be     *)
(* whole pixels; NaN is a separate value that every comparison rejects.    *)
(***************************************************************************)
EXTENDS Integers, Sequences, FiniteSets, TLC

\* ------------------------------------------------------------------ bounds
\* Width resolution: measured widths are multiples of 1/WidthScale px.
WidthScale == 2
\* Longest caption, in words, that the wrapText specification draws.
MaxWords == 8

\* ----------------------------------------------------------- JS numbers
NaN == -1

IsNaN(x) == x = NaN

\* a < b, a <= b on JS numbers: false as soon as one side is NaN
Lt(a, b) == ~IsNaN(a) /\ ~IsNaN(b) /\ a < b

Le(a, b) == ~IsNaN(a) /\ ~IsNaN(b) /\ a <= b

Abs(x) == IF x < 0 THEN -x ELSE x

Max(a, b) == IF a > b THEN a ELSE b

Min(a, b) == IF a < b THEN a ELSE b

\* a pixel count in width units
Px(n) == n * WidthScale

\* ------------------------------------------------------------- strings
\* The glyphs captions are written with: a narrow and a wide letter, and
\* "L", an unbreakable run of LongRunChars letters (a long word or URL).
Letters == {"i", "m", "L"}

Space == " "

LongRunChars == 40

\* String.prototype.length contribution of one glyph
CharLen(c) == IF c = "L" THEN LongRunChars ELSE 1

\* advance width of one glyph at the 30px font, in width units
CharWidth(c) ==
    CASE c = "i" -> 13
      [] c = "m" -> 51
      [] c = Space -> 15
      [] c = "L" -> LongRunChars * 30

\* occurrences of glyph c in s
Count(s, c) == Cardinality({i \in 1..Len(s) : s[i] = c})

\* String.prototype.length
StrLen(s) ==
    Count(s, "i") * CharLen("i") + Count(s, "m") * CharLen("m")
        + Count(s, Space) * CharLen(Space) + Count(s, "L") * CharLen("L")

\* the advance widths of the glyphs of s added up
SumWidth(s) ==
    Count(s, "i") * CharWidth("i") + Count(s, "m") * CharWidth("m")
        + Count(s, Space) * CharWidth(Space) + Count(s, "L") * CharWidth("L")

\* text.split(' '): the maximal runs between single spaces, empty runs kept
Split(s) ==
    LET spaces == {i \in 1..Len(s) : s[i] = Space}
        n == Cardinality(spaces) + 1
        \* position of the k-th space; 0 and Len(s) + 1 stand for the ends
        cut(k) ==
            IF k = 0 THEN 0
            ELSE IF k = n THEN Len(s) + 1
            ELSE CHOOSE i \in spaces : Cardinality({j \in spaces : j < i}) = k - 1
    IN  [k \in 1..n |-> SubSeq(s, cut(k - 1) + 1, cut(k) - 1)]

\* words.join(' ')
RECURSIVE Join(_)
Join(ws) ==
    IF ws = <<>> THEN <<>>
    ELSE IF Len(ws) = 1 THEN ws[1]
    ELSE ws[1] \o <<Space>> \o Join(Tail(ws))

\* words.slice(a, b), 0-based and end-exclusive as in JS
Slice(ws, a, b) == SubSeq(ws, a + 1, b)

\* --------------------------------------------------------- measurement
\* How context.measureText behaves for a request:
\*   "ok"    the font is available, widths are the glyph advances
\*   "zero"  every width is 0 (font not available to the canvas)
\*   "nan"   every width is NaN
\*   "throw" measureText throws
MeasureModes == {"ok", "zero", "nan", "throw"}

Throws(mode) == mode = "throw"

\* context.measureText(s).width when it does not throw
measureText(mode, s) ==
    CASE mode = "ok" -> SumWidth(s)
      [] mode = "zero" -> 0
      [] mode = "nan" -> NaN
      [] OTHER -> NaN

\* sanity floor below which a measured width is taken as unreliable
SanityFloor == 10

\* (mutant of canMeasure) the sanity floor is not applied
canMeasureNoFloor(mode, text) ==
    /\ ~Throws(mode)
    /\ ~IsNaN(measureText(mode, text))

canMeasure(mode, text) ==
    /\ ~Throws(mode)
    /\ LET testWidth == measureText(mode, text)
       IN  ~(Lt(testWidth, Px(SanityFloor)) \/ IsNaN(testWidth))

\* ------------------------------------------------------------ wrapText
\* What a call returns: the lines, or threw = TRUE when measureText threw
\* outside wrapText's try/catch.
Returned(ls) == [threw |-> FALSE, lines |-> ls]

Thrown == [threw |-> TRUE, lines |-> <<>>]

\* bestBalance starts at Infinity
Infinity == -2

\* (mutant of BothFit) only the first half is checked against maxWidth
BothFitFirstOnly(mode, words, maxWidth, i) ==
    Le(measureText(mode, Join(Slice(words, 0, i))), Px(maxWidth))

\* both halves of the split at index i fit maxWidth (units of px)
BothFit(mode, words, maxWidth, i) ==
    LET firstWidth == measureText(mode, Join(Slice(words, 0, i)))
        secondWidth == measureText(mode, Join(Slice(words, i, Len(words))))
    IN  Le(firstWidth, Px(maxWidth)) /\ Le(secondWidth, Px(maxWidth))

\* balance score of the split at index i (lower is better)
Balance(mode, words, i) ==
    Abs(measureText(mode, Join(Slice(words, 0, i)))
        - measureText(mode, Join(Slice(words, i, Len(words)))))

\* first and last split index the balanced search tries
SplitLo(n) == Max(1, (n \div 2) - 2)

\* (mutant of SplitHi) the search stops one word after the midpoint
SplitHiNarrow(n) == Min(n - 1, (n \div 2) + 1)

SplitHi(n) == Min(n - 1, (n \div 2) + 2)

\* the for loop of the balanced search, from index i on; returns bestSplit
RECURSIVE BestSplitLoop(_, _, _, _, _, _)
BestSplitLoop(mode, words, maxWidth, i, bestSplit, bestBalance) ==
    IF i > SplitHi(Len(words)) THEN bestSplit
    ELSE LET balance == Balance(mode, words, i)
             better == /\ BothFit(mode, words, maxWidth, i)
                       /\ (bestBalance = Infinity \/ balance < bestBalance)
         IN  IF better
             THEN BestSplitLoop(mode, words, maxWidth, i + 1, i, balance)
             ELSE BestSplitLoop(mode, words, maxWidth, i + 1, bestSplit, bestBalance)

\* (mutant of fitsOnLine) a width equal to maxWidth is accepted
fitsOnLineAtMost(mode, currentLine, word, maxWidth) ==
    Le(measureText(mode, currentLine \o <<Space>> \o word), Px(maxWidth))

\* width < maxWidth for width = measureText(currentLine + ' ' + word).width
fitsOnLine(mode, currentLine, word, maxWidth) ==
    Lt(measureText(mode, currentLine \o <<Space>> \o word), Px(maxWidth))

\* the greedy loop from word index i (0-based) on
RECURSIVE GreedyLoop(_, _, _, _, _, _)
GreedyLoop(mode, words, maxWidth, i, currentLine, lines) ==
    IF i >= Len(words) THEN Returned(Append(lines, currentLine))
    ELSE IF Throws(mode) THEN Thrown
    ELSE LET word == words[i + 1]
         IN  IF fitsOnLine(mode, currentLine, word, maxWidth)
             THEN GreedyLoop(mode, words, maxWidth, i + 1,
                             currentLine \o <<Space>> \o word, lines)
             ELSE GreedyLoop(mode, words, maxWidth, i + 1, word,
                             Append(lines, currentLine))

\* greedy wrapping of the whole caption
Greedy(mode, words, maxWidth) ==
    GreedyLoop(mode, words, maxWidth, 1, words[1], <<>>)

\* (mutant of SplitAt) the second line starts one word late
SplitAtDropWord(words, i) ==
    <<Join(Slice(words, 0, i)), Join(Slice(words, i + 1, Len(words)))>>

\* the two lines of the split at index i
SplitAt(words, i) ==
    <<Join(Slice(words, 0, i)), Join(Slice(words, i, Len(words)))>>

\* (mutant of wrapText) the fits-on-one-line test is made only for captions
\* too short for the balanced split
wrapTextLateFastPath(mode, text, maxWidth) ==
    LET words == Split(text)
        n == Len(words)
        cm == canMeasure(mode, text)
        midPoint == n \div 2
        bestSplit == BestSplitLoop(mode, words, maxWidth, SplitLo(n),
                                   midPoint, Infinity)
    IN  IF n >= 4 /\ cm /\ BothFit(mode, words, maxWidth, bestSplit)
        THEN Returned(SplitAt(words, bestSplit))
        ELSE IF cm /\ Le(measureText(mode, text), Px(maxWidth))
        THEN Returned(<<text>>)
        ELSE IF n >= 4 /\ ~cm
        THEN Returned(SplitAt(words, midPoint))
        ELSE IF ~cm /\ n >= 2
        THEN Returned(SplitAt(words, midPoint))
        ELSE Greedy(mode, words, maxWidth)

wrapText(mode, text, maxWidth) ==
    LET words == Split(text)
        n == Len(words)
        cm == canMeasure(mode, text)
        midPoint == n \div 2
        bestSplit == BestSplitLoop(mode, words, maxWidth, SplitLo(n),
                                   midPoint, Infinity)
    IN  IF cm /\ Le(measureText(mode, text), Px(maxWidth))
        THEN Returned(<<text>>)
        ELSE IF n >= 4 /\ cm /\ BothFit(mode, words, maxWidth, bestSplit)
        THEN Returned(SplitAt(words, bestSplit))
        ELSE IF n >= 4 /\ ~cm
        THEN Returned(SplitAt(words, midPoint))
        ELSE IF ~cm /\ n >= 2
        THEN Returned(SplitAt(words, midPoint))
        ELSE Greedy(mode, words, maxWidth)

\* ------------------------------------------------- label box (handler)
outputWidth == 1200

outputHeight == 628

fontSize == 30

textHeight == fontSize

padding == 10

overlayPixelShiftUp == 13

lineSpacing == 2

\* outputWidth - 100: leave margin for centering
maxTextWidth == outputWidth - 100

\* outputWidth - 20: leave 10px margin on each side
maxBoxWidth == outputWidth - 20

\* Math.ceil of a width given in width units, in px
Ceil(w) == (w + WidthScale - 1) \div WidthScale

\* Math.round(x / 2) for an integer x: halves round up
RoundHalf(x) == (x + 1) \div 2

\* Math.max(...lines.map(line => measureText(line).width)): NaN as soon as
\* one width is NaN
RECURSIVE MaxWidthOf(_, _)
MaxWidthOf(mode, lines) ==
    IF Len(lines) = 1 THEN measureText(mode, lines[1])
    ELSE LET w == measureText(mode, lines[1])
             rest == MaxWidthOf(mode, Tail(lines))
         IN  IF IsNaN(w) \/ IsNaN(rest) THEN NaN ELSE Max(w, rest)

\* lines.reduce((a, b) => a.length > b.length ? a : b, '').length
RECURSIVE LongestLength(_)
LongestLength(lines) ==
    IF lines = <<>> THEN 0 ELSE Max(StrLen(Head(lines)), LongestLength(Tail(lines)))

\* fontSize * 0.6, the rough character width of the estimate
EstimatedCharWidth == (fontSize * 6) \div 10

\* (mutant of longestLineWidth) the measured width is used as it is
longestLineWidthNoFallback(mode, lines) == MaxWidthOf(mode, lines)

\* longestLineWidth in width units, after the fallback for measurement issues
longestLineWidth(mode, lines) ==
    LET measured == MaxWidthOf(mode, lines)
    IN  IF Lt(measured, Px(SanityFloor)) \/ IsNaN(measured)
        THEN Px(LongestLength(lines) * EstimatedCharWidth)
        ELSE measured

\* (mutant of boxWidthOf) the width is not capped
boxWidthOfUncapped(mode, lines) ==
    Ceil(longestLineWidth(mode, lines)) + (padding * 2)

boxWidthOf(mode, lines) ==
    LET calculatedBoxWidth == Ceil(longestLineWidth(mode, lines)) + (padding * 2)
    IN  Min(calculatedBoxWidth, maxBoxWidth)

boxHeightOf(lines) ==
    LET totalTextHeight == (textHeight * Len(lines))
                           + (lineSpacing * Max(0, Len(lines) - 1))
    IN  totalTextHeight + (padding * 2)

\* (mutant of boxLeftOf) the half is rounded down
boxLeftOfRoundedDown(boxWidth) ==
    LET boxLeft == (outputWidth - boxWidth) \div 2
    IN  Max(0, Min(boxLeft, outputWidth - boxWidth))

\* final boxLeft: centred, then kept within the image
boxLeftOf(boxWidth) ==
    LET boxLeft == RoundHalf(outputWidth - boxWidth)
    IN  Max(0, Min(boxLeft, outputWidth - boxWidth))

\* final boxTop: shifted up from the bottom, then kept within the image
boxTopOf(boxHeight, shiftUp) ==
    LET boxTop == outputHeight - boxHeight - shiftUp
    IN  Max(0, Min(boxTop, outputHeight - boxHeight))

NoBox == [lines |-> 0, boxWidth |-> 0, boxHeight |-> 0, boxLeft |-> 0, boxTop |-> 0]

\* the label box the handler computes for wrapped lines
computeBox(mode, lines) ==
    LET bw == boxWidthOf(mode, lines)
        bh == boxHeightOf(lines)
    IN  [lines |-> Len(lines), boxWidth |-> bw, boxHeight |-> bh,
         boxLeft |-> boxLeftOf(bw), boxTop |-> boxTopOf(bh, overlayPixelShiftUp)]

\* The layout part of a render: "ok" and the box, or "threw" when
\* measureText throws outside a try/catch.
layout(mode, caption) ==
    LET wrapped == wrapText(mode, caption, maxTextWidth)
    IN  IF wrapped.threw \/ Throws(mode)
        THEN [outcome |-> "threw", box |-> NoBox]
        ELSE [outcome |-> "ok", box |-> computeBox(mode, wrapped.lines)]

\* ------------------------------------------------- fonts (handler)
\* What GlobalFonts.registerFromPath does with the font asset: it
\* registers the font, it returns a falsy value (the font is not
\* registered), or it throws.
FontOutcomes == {"registered", "failed", "threw"}

\* 'Arial, sans-serif', the default fallback, as the list of its families
DefaultFamily == <<"Arial", "sans-serif">>

\* 'Roboto Condensed, Arial, sans-serif'
CustomFamily == <<"Roboto Condensed">> \o DefaultFamily

\* fontFamily after the try/catch around the registration: the assignment
\* follows the call and is skipped only when the call throws
fontFamilyOf(outcome) ==
    IF outcome = "threw" THEN DefaultFamily ELSE CustomFamily

\* fontFamily.split(',')[0]: the family of measureContext.font
measureFontOf(fontFamily) == Head(fontFamily)

\* the family of textContext.font = `${fontSize}px Arial`
drawFont == "Arial"

\* ------------------------------------------------- text drawing (handler)
\* textTop = padding - 10: adjusted for the smaller canvas
textTop == padding - 10

\* fontSize * 1.2, the step from one drawn line to the next
lineStep == (fontSize * 12) \div 10

\* yPosition of the line at index (from 0); textBaseline is 'top', so the
\* line covers the rows yPosition .. yPosition + fontSize of the text canvas
yPosition(index) == textTop + (index * lineStep) + fontSize

\* String.prototype.trim over the characters of the model
trim(s) ==
    LET kept == {i \in 1..Len(s) : s[i] # Space}
    IN  IF kept = {} THEN <<>>
        ELSE SubSeq(s, CHOOSE i \in kept : \A j \in kept : i <= j,
                       CHOOSE i \in kept : \A j \in kept : j <= i)

\* lines.forEach((line, index) => ... fillText(cleanedLine, xPosition,
\* yPosition)): the calls of fillText, each with the top row of its line
fillTextCalls(lines) ==
    [k \in 1..Len(lines) |-> [text |-> trim(lines[k]), top |-> yPosition(k - 1)]]

\* a fillText call puts ink on a canvas of the given height when some row
\* of its line is a row of the canvas
Painted(call, canvasHeight) ==
    /\ call.top < canvasHeight
    /\ call.top + fontSize > 0

\* the calls of fillText that paint on the canvas
paintedCalls(calls, canvasHeight) ==
    {k \in 1..Len(calls) : Painted(calls[k], canvasHeight)}

\* boxHeight of the single-line handler: text height + padding, minus 10px
boxHeightSingleLine == textHeight + (padding * 2) - 10

\* boxHeight of the file-backed handler: text height + padding
boxHeightFileBacked == textHeight + (padding * 2)

\* the single-line and file-backed handlers: textBaseline 'middle',
\* textY = (boxHeight / 2) - up, fillText(lines[0], textX, textY) only
fillTextFirstLine(lines, boxHeight, up) ==
    <<[text |-> lines[1], top |-> (boxHeight \div 2) - up - (fontSize \div 2)]>>

\* the wrapText of the single-line and file-backed handlers: greedy only
wrapTextGreedy(mode, text, maxWidth) == Greedy(mode, Split(text), maxWidth)

\* ------------------------------------------------- image cache (handler)
\* The rendered outputs (buffers) of the model, and the values of the hash
\* in the id.  The id carries only the first 8 hex digits of the md5 of the
\* output: fewer values than there are outputs, so two different outputs
\* can share one (here outputs 1 and 3).
Outputs == {1, 2, 3}

HashDigests == {0, 1}

\* the digits of the bases 10 and 16
DigitChars ==
    <<"0", "1", "2", "3", "4", "5", "6", "7", "8", "9",
      "a", "b", "c", "d", "e", "f">>

\* 16 to the power k
RECURSIVE Pow16(_)
Pow16(k) == IF k = 0 THEN 1 ELSE 16 * Pow16(k - 1)

\* length of the part of the md5 hex digest that goes into the id
HashLength == 8

\* 32 digest bits as HashLength hex digits
Hex8(h) == [k \in 1..HashLength |-> DigitChars[((h \div Pow16(HashLength - k)) % 16) + 1]]

\* crypto.createHash('md5').update(outputBuffer).digest('hex').substring(0, 8)
Hash(b) == Hex8(b % Cardinality(HashDigests))

\* a number in a template literal: its decimal digits
RECURSIVE Decimal(_)
Decimal(n) ==
    IF n < 10 THEN <<DigitChars[n + 1]>>
    ELSE Decimal(n \div 10) \o <<DigitChars[(n % 10) + 1]>>

\* (mutant of imageIdOf) the id is the hash alone
imageIdOfHashOnly(timestamp, b) == Hash(b)

\* `${timestamp}-${hash}`
imageIdOf(timestamp, b) == Decimal(timestamp) \o <<"-">> \o Hash(b)

\* keep only last 10
CacheLimit == 10

\* keys of the Map
Keys(cache) == {cache[i].id : i \in 1..Len(cache)}

\* Map.prototype.set: a new key goes last, an existing key keeps its place
\* and gets the new value
MapSet(cache, id, value) ==
    IF id \in Keys(cache)
    THEN [i \in 1..Len(cache) |->
             IF cache[i].id = id THEN [id |-> id, value |-> value] ELSE cache[i]]
    ELSE Append(cache, [id |-> id, value |-> value])

\* Map.prototype.get: the value in a one-element set, or the empty set
MapGet(cache, id) == {cache[i].value : i \in {j \in 1..Len(cache) : cache[j].id = id}}

\* Map.prototype.delete for a set of keys
MapDelete(cache, ids) == SelectSeq(cache, LAMBDA e : e.id \notin ids)

\* (mutant of InsertByTimestamp) newest first
InsertByTimestampDescending(sorted, e) ==
    LET before == SelectSeq(sorted, LAMBDA x : x.value.timestamp >= e.value.timestamp)
        after == SelectSeq(sorted, LAMBDA x : x.value.timestamp < e.value.timestamp)
    IN  before \o <<e>> \o after

\* one step of the stable sort by timestamp: e goes after every entry whose
\* timestamp is not greater
InsertByTimestamp(sorted, e) ==
    LET before == SelectSeq(sorted, LAMBDA x : x.value.timestamp <= e.value.timestamp)
        after == SelectSeq(sorted, LAMBDA x : x.value.timestamp > e.value.timestamp)
    IN  before \o <<e>> \o after

\* entries.sort((a, b) => a[1].timestamp - b[1].timestamp), a stable sort
RECURSIVE SortByTimestamp(_)
SortByTimestamp(entries) ==
    IF entries = <<>> THEN <<>>
    ELSE InsertByTimestamp(SortByTimestamp(SubSeq(entries, 1, Len(entries) - 1)),
                           entries[Len(entries)])

\* Clean up old entries (keep only last 10)
cleanup(cache) ==
    IF Len(cache) > CacheLimit
    THEN LET entries == SortByTimestamp(cache)
             doomed == {entries[i].id : i \in 1..(Len(entries) - CacheLimit)}
         IN  MapDelete(cache, doomed)
    ELSE cache

\* the cache after a render stored output b at time timestamp
cachePut(cache, timestamp, b) ==
    cleanup(MapSet(cache, imageIdOf(timestamp, b),
                   [buffer |-> b, timestamp |-> timestamp]))

\* ------------------------------------------------------------ responses
NoId == <<>>

\* buffer.toString('base64') and back
ToBase64(b) == [base64 |-> b]

FromBase64(body) == body.base64

NoBody == ToBase64(0)

\* the error member of the JSON body of an error answer
ErrorText(code) ==
    CASE code = 400 -> "No image data provided"
      [] code = 404 -> "Image not found or expired"
      [] code = 500 -> "Image processing failed"

\* A response.  rendered is not sent: it records the outputBuffer of the
\* render that answered (the answer carries its id and its size).
NoResponse ==
    [statusCode |-> 0, type |-> "none", imageId |-> NoId, body |-> NoBody,
     error |-> "", rendered |-> 0]

\* the JSON answer of a successful render
RenderedResponse(id, b) ==
    [statusCode |-> 200, type |-> "json", imageId |-> id, body |-> NoBody,
     error |-> "", rendered |-> b]

ImageResponse(b) ==
    [statusCode |-> 200, type |-> "image", imageId |-> NoId, body |-> ToBase64(b),
     error |-> "", rendered |-> 0]

\* (mutant of ErrorResponse) an exception is not caught: the promise of the
\* handler rejects
ErrorResponseUncaught(code) ==
    IF code = 500
    THEN [statusCode |-> 0, type |-> "rejected", imageId |-> NoId, body |-> NoBody,
          error |-> "", rendered |-> 0]
    ELSE [statusCode |-> code, type |-> "error", imageId |-> NoId, body |-> NoBody,
          error |-> ErrorText(code), rendered |-> 0]

ErrorResponse(code) ==
    [statusCode |-> code, type |-> "error", imageId |-> NoId, body |-> NoBody,
     error |-> ErrorText(code), rendered |-> 0]

\* How the image reaches the handler: as the image or file field of a
\* multipart form, or as the base64 body of the request.
Transports == {"multipart", "body"}

\* The image of a request: none (no image or file field; event.body null),
\* empty (zero bytes), or bytes.
ImageInputs == {"none", "empty", "bytes"}

\* The input extraction: "threw" (multipart: the Error thrown when no file
\* is found; body: Buffer.from of a value that is not a string), or the
\* imageBuffer, "empty" or "bytes".
imageBufferOf(transport, image) ==
    IF image = "none" THEN "threw" ELSE image

\* handler with serve=image and id: the cached image or 404
serveImage(cache, id) ==
    LET cachedImage == MapGet(cache, id)
    IN  IF cachedImage = {}
        THEN ErrorResponse(404)
        ELSE LET entry == CHOOSE v \in cachedImage : TRUE
             IN  ImageResponse(entry.buffer)

\* (mutant of imageCacheAfterGet) a hit moves the entry to the end of the Map
imageCacheAfterGetMovingHit(cache, id) ==
    IF MapGet(cache, id) = {} THEN cache
    ELSE MapSet(MapDelete(cache, {id}), id, CHOOSE v \in MapGet(cache, id) : TRUE)

\* global.imageCache after the serve branch: global.imageCache || new Map()
\* and Map.prototype.get, which leave the entries as they are
imageCacheAfterGet(cache, id) == cache

\* size of the output: resize(outputWidth, outputHeight, { fit: 'cover' })
\* gives exactly these dimensions for every input, and the composite and
\* the JPEG encoding keep them
outputSize == [width |-> outputWidth, height |-> outputHeight]

\* width and height of the text canvas that is composited
textCanvasWidth(box) == Min(box.boxWidth + 20, outputWidth)

textCanvasHeight(box) == box.boxHeight

\* sharp composites an overlay no larger than the base image
compositeAccepts(box) ==
    /\ textCanvasWidth(box) <= outputWidth
    /\ textCanvasHeight(box) <= outputHeight

\* ------------------------------------- temp files (serve-temp, cleanup)
\* File names and paths are strings of characters; in the path of the
\* function a segment stands for its characters.
OverlayPrefix == <<"o", "v", "e", "r", "l", "a", "y", "-">>

JpgSuffix == <<".", "j", "p", "g">>

\* String.prototype.startsWith and endsWith
startsWith(s, p) == Len(s) >= Len(p) /\ SubSeq(s, 1, Len(p)) = p

endsWith(s, p) == Len(s) >= Len(p) /\ SubSeq(s, Len(s) - Len(p) + 1, Len(s)) = p

\* \d and [a-f0-9] of the filename regex
DecimalDigits == {DigitChars[k] : k \in 1..10}

HexDigits == {DigitChars[k] : k \in 1..16}

\* {8} of the filename regex
HexRun == 8

\* (mutant of overlayFilename) the name carries a shortened hash
overlayFilenameShortHash(timestamp, b) ==
    OverlayPrefix \o Decimal(timestamp) \o <<"-">> \o Tail(Hash(b)) \o JpgSuffix

\* `overlay-${timestamp}-${hash}.jpg` of the file-backed render
overlayFilename(timestamp, b) ==
    OverlayPrefix \o Decimal(timestamp) \o <<"-">> \o Hash(b) \o JpgSuffix

\* filename.match(/^overlay-\d+-[a-f0-9]{8}\.jpg$/): the digits are what
\* is left between the prefix and '-', the hex run and the suffix
matchesFilenameFormat(filename) ==
    LET digits == Len(filename) - Len(OverlayPrefix) - 1 - HexRun - Len(JpgSuffix)
        dash == Len(OverlayPrefix) + digits + 1
    IN  /\ digits >= 1
        /\ startsWith(filename, OverlayPrefix)
        /\ \A i \in (Len(OverlayPrefix) + 1)..(dash - 1) : filename[i] \in DecimalDigits
        /\ filename[dash] = "-"
        /\ \A i \in (dash + 1)..(dash + HexRun) : filename[i] \in HexDigits
        /\ endsWith(filename, JpgSuffix)

\* file.startsWith('overlay-') && file.endsWith('.jpg')
isOverlayFile(name) == startsWith(name, OverlayPrefix) /\ endsWith(name, JpgSuffix)

\* '/tmp'
tempDir == <<"/", "t", "m", "p">>

\* `/tmp/${filename}`, path.join(tempDir, file)
tempPathOf(filename) == tempDir \o <<"/">> \o filename

\* path.split('/').pop(): what follows the last '/'
PathPop(path) ==
    LET slashes == {i \in 1..Len(path) : path[i] = "/"}
    IN  IF slashes = {} THEN path
        ELSE SubSeq(path, (CHOOSE i \in slashes : \A j \in slashes : j <= i) + 1,
                    Len(path))

\* `/.netlify/functions/serve-temp/`, the path in front of the file name
\* in imageUrl
FunctionPath == <<"/", ".netlify", "/", "functions", "/", "serve-temp", "/">>

\* the names in the model's /tmp at the start: two generated by a render,
\* one that only looks like an overlay file, one unrelated
TempNames ==
    {overlayFilename(0, 1), overlayFilename(1, 2)}
    \cup {OverlayPrefix \o <<"c", "o", "p", "y">> \o JpgSuffix,
          <<"n", "o", "t", "e", "s", ".", "t", "x", "t">>}

\* 24 hours in milliseconds
maxAge == 24 * 60 * 60 * 1000

\* the paths of the files of a file system (a set of [path, mtime, bytes])
Paths(fs) == {f.path : f \in fs}

\* the file at a path
FileAtPath(fs, path) == CHOOSE f \in fs : f.path = path

\* fs.readdir(tempDir): the names of the files in /tmp
FileNames(fs) == {PathPop(path) : path \in Paths(fs)}

\* fs.stat(path.join(tempDir, file))
FileNamed(fs, name) == FileAtPath(fs, tempPathOf(name))

NoName == <<>>

\* responses of serve-temp; name is the file that was asked for
TempResponse(code, name, b) == [statusCode |-> code, name |-> name, body |-> ToBase64(b)]

NoTempResponse == TempResponse(0, NoName, 0)

\* responses of the cleanup
SweepResponse(code, deleted, total) ==
    [statusCode |-> code, deletedCount |-> deleted, totalCount |-> total]

NoSweepResponse == SweepResponse(0, 0, 0)

\* ------------------------------------------------------------- state
VARIABLES
    wText,      \* wrapText call: the caption
    wMaxWidth,  \* wrapText call: maxWidth in px
    wMode,      \* wrapText call: how measureText behaves
    wPc,        \* wrapText call: "call" before it runs, "done" after
    wResult     \* wrapText call: what the call returned, once wPc = "done"

VARIABLES
    lCaption,   \* layout: the caption of the render request
    lMode,      \* layout: how measureText behaves for the request
    lPc,        \* layout: "start", then "ok" or "threw"
    lBox,       \* layout: the label box, once lPc = "ok"
    lFont,      \* layout: what registering the font asset does
    lFamily     \* layout: fontFamily after the registration

VARIABLES
    imageCache, \* global.imageCache: the entries in Map (insertion) order
    pending,    \* render requests in flight, counted per await they wait at
    resp,       \* the response returned last
    now,        \* the wall clock, what Date.now() returns
    created,    \* ids stored so far by successful renders (history)
    renders     \* render requests accepted so far (history)

VARIABLES
    tmpFiles,   \* the files in /tmp: a set of [name, mtime, bytes]
    fileClock,  \* the wall clock of the file store, in ms
    sweepPc,    \* cleanup handler: "idle", "stat" or "unlink"
    sweepNow,   \* cleanup handler: now, read before the directory
    sweepTodo,  \* cleanup handler: overlayFiles not yet visited
    sweepFile,  \* cleanup handler: the file of the current iteration
    sweepCount, \* cleanup handler: deletedCount
    sweepTotal, \* cleanup handler: totalCount
    sweepResp,  \* the response the cleanup returned last
    servePc,    \* serve-temp handler: "idle" or "read"
    serveName,  \* serve-temp handler: the file name asked for
    tempResp,   \* the response serve-temp returned last
    swept,      \* names the cleanup has deleted (history)
    written     \* file names the file-backed render has returned (history)

wrapVars == <<wText, wMaxWidth, wMode, wPc, wResult>>

layoutVars == <<lCaption, lMode, lPc, lBox, lFont, lFamily>>

serverVars == <<imageCache, pending, resp, now, created, renders>>

fileVars == <<tmpFiles, fileClock, sweepPc, sweepNow, sweepTodo, sweepFile,
              sweepCount, sweepTotal, sweepResp, servePc, serveName, tempResp,
              swept, written>>

vars == <<wrapVars, layoutVars, serverVars, fileVars>>

\* values of the variables a specification does not use
WrapIdle ==
    /\ wText = <<>>
    /\ wMaxWidth = maxTextWidth
    /\ wMode = "ok"
    /\ wPc = "done"
    /\ wResult = Returned(<<>>)

LayoutIdle ==
    /\ lCaption = <<>>
    /\ lMode = "ok"
    /\ lPc = "idle"
    /\ lBox = NoBox
    /\ lFont = "registered"
    /\ lFamily = DefaultFamily

NoPending == [metadata |-> 0, composite |-> 0, rejected |-> 0]

ServerIdle ==
    /\ imageCache = <<>>
    /\ pending = NoPending
    /\ resp = NoResponse
    /\ now = 0
    /\ created = {}
    /\ renders = 0

\* no request of serve-temp or of the cleanup has started
FileHandlersIdle ==
    /\ sweepPc = "idle"
    /\ sweepNow = 0
    /\ sweepTodo = {}
    /\ sweepFile = NoName
    /\ sweepCount = 0
    /\ sweepTotal = 0
    /\ sweepResp = NoSweepResponse
    /\ servePc = "idle"
    /\ serveName = NoName
    /\ tempResp = NoTempResponse
    /\ swept = {}
    /\ written = {}

FilesIdle ==
    /\ tmpFiles = {}
    /\ fileClock = 0
    /\ FileHandlersIdle

\* ------------------------------------------- specification of wrapText
\* Words a drawn caption is made of; the empty word comes from two
\* consecutive spaces (or a leading or trailing one).
Vocabulary == {<<"i">>, <<"m">>, <<>>}

RECURSIVE WordSeqs(_)
WordSeqs(k) ==
    IF k = 0 THEN {<<>>}
    ELSE LET shorter == WordSeqs(k - 1)
         IN  shorter \cup {Append(ws, w) : ws \in {x \in shorter : Len(x) = k - 1},
                                           w \in Vocabulary}

Captions == {Join(ws) : ws \in WordSeqs(MaxWords)}

\* maxWidth values, in px: narrower than one wide letter, exactly a wide
\* letter and a space, a few letters wide, and the handler's own
\* maxTextWidth
WrapWidths == {20, 33, 45, 70, 130, 1100}

WrapInit ==
    /\ wText \in Captions
    /\ wMaxWidth \in WrapWidths
    /\ wMode \in MeasureModes
    /\ wPc = "call"
    /\ wResult = Returned(<<>>)
    /\ LayoutIdle
    /\ ServerIdle
    /\ FilesIdle

\* the call wrapText(context, text, maxWidth)
WrapCall ==
    /\ wPc = "call"
    /\ wPc' = "done"
    /\ wResult' = wrapText(wMode, wText, wMaxWidth)
    /\ UNCHANGED <<wText, wMaxWidth, wMode>>
    /\ UNCHANGED <<layoutVars, serverVars, fileVars>>

WrapNext == WrapCall

SpecWrap == WrapInit /\ [][WrapNext]_vars

\* ------------------------------------- specification of the box layout
\* Longest caption, in words, that the layout specification draws.
MaxLayoutWords == 20

RECURSIVE Repeat(_, _)
Repeat(w, k) == IF k = 0 THEN <<>> ELSE <<w>> \o Repeat(w, k - 1)

\* Captions of a render request: short ones over the vocabulary, and
\* captions of k equal words, short or long, up to MaxLayoutWords.  An
\* empty caption is replaced by 'Default Caption' before the layout.
LayoutCaptions ==
    ({Join(ws) : ws \in WordSeqs(3)} \ {<<>>})
    \cup {Join(Repeat(w, k)) : w \in {<<"m">>, <<"L">>, <<"m", "m", "L">>},
                               k \in 1..MaxLayoutWords}

LayoutInit ==
    /\ lCaption \in LayoutCaptions
    /\ lMode \in MeasureModes
    /\ lPc = "start"
    /\ lBox = NoBox
    /\ lFont \in FontOutcomes
    /\ lFamily = DefaultFamily
    /\ WrapIdle
    /\ ServerIdle
    /\ FilesIdle

\* handler, from the font registration and wrapText(measureContext,
\* caption, maxTextWidth) to the boundary clamping
LayoutStep ==
    /\ lPc = "start"
    /\ LET r == layout(lMode, lCaption)
       IN  /\ lPc' = r.outcome
           /\ lBox' = r.box
    /\ lFamily' = fontFamilyOf(lFont)
    /\ UNCHANGED <<lCaption, lMode, lFont>>
    /\ UNCHANGED <<wrapVars, serverVars, fileVars>>

LayoutNext == LayoutStep

SpecLayout == LayoutInit /\ [][LayoutNext]_vars

\* ------------------------------------------ specification of the server
\* Render requests that may be in flight at once.
MaxInFlight == 2
\* Renders that may store an output during one run.
MaxRenders == 2

\* The cache a run starts from: empty, or as WarmSize earlier renders left
\* it, two per millisecond from time 1 on, with outputs 2 and 1 in turn.
\* Reading of the clock one millisecond before the first warm entry; the
\* readings of the model go from one decimal digit to two.
WarmEpoch == 8

WarmEntry(j) ==
    [id |-> imageIdOf(WarmEpoch + ((j + 1) \div 2), 1 + (j % 2)),
     value |-> [buffer |-> 1 + (j % 2),
                timestamp |-> WarmEpoch + ((j + 1) \div 2)]]

WarmCache(k) == [j \in 1..k |-> WarmEntry(j)]

WarmSizes == {0, CacheLimit - 1, CacheLimit}

LastWarmTime == WarmEpoch + ((CacheLimit + 1) \div 2)

\* Date.now() is the wall clock: it advances, returns the same millisecond
\* to calls that are close, and steps back when the system time is adjusted.
\* The readings of the model: before every warm entry, the millisecond of
\* the oldest one, the millisecond of the newest one, and the one after.
ClockReadings == {WarmEpoch, WarmEpoch + 1, LastWarmTime, LastWarmTime + 1}

AllIds == {imageIdOf(t, b) : t \in WarmEpoch..(LastWarmTime + 1), b \in Outputs}

\* captions of render requests: a short one, and one of MaxLayoutWords long words
RenderCaptions == {Join(<< <<"m">>, <<"i">> >>), Join(Repeat(<<"L">>, MaxLayoutWords))}

InFlight == pending.metadata + pending.composite + pending.rejected

Init ==
    /\ \E k \in WarmSizes :
           /\ imageCache = WarmCache(k)
           /\ created = Keys(WarmCache(k))
    /\ pending = NoPending
    /\ resp = NoResponse
    /\ now = LastWarmTime
    /\ renders = 0
    /\ WrapIdle
    /\ LayoutIdle
    /\ FilesIdle

\* time passes, up to the next reading
Tick ==
    /\ \E t \in ClockReadings :
           /\ t > now
           /\ \A u \in ClockReadings : u > now => t <= u
           /\ now' = t
    /\ UNCHANGED <<imageCache, pending, resp, created, renders>>
    /\ UNCHANGED <<wrapVars, layoutVars, fileVars>>

\* the system time is set back
ClockStepBack ==
    /\ \E t \in ClockReadings : t < now /\ now' = t
    /\ UNCHANGED <<imageCache, pending, resp, created, renders>>
    /\ UNCHANGED <<wrapVars, layoutVars, fileVars>>

\* handler, retrieval: serve=image&id=...
Retrieve ==
    /\ \E id \in AllIds :
           /\ resp' = serveImage(imageCache, id)
           /\ imageCache' = imageCacheAfterGet(imageCache, id)
    /\ UNCHANGED <<pending, now, created, renders>>
    /\ UNCHANGED <<wrapVars, layoutVars, fileVars>>

\* handler, render, up to sharp(imageBuffer).metadata(): the input is
\* extracted and validated, then the metadata is awaited.  (The await of
\* parser.parse touches no state of the handler and is part of this step.)
RenderStartWith(transport, image) ==
    /\ InFlight < MaxInFlight
    /\ renders < MaxRenders
    /\ LET imageBuffer == imageBufferOf(transport, image)
       IN  IF imageBuffer = "threw"
           THEN /\ resp' = ErrorResponse(500)
                /\ UNCHANGED <<pending, renders>>
           ELSE IF imageBuffer = "empty"
           THEN /\ resp' = ErrorResponse(400)
                /\ UNCHANGED <<pending, renders>>
           ELSE /\ pending' = [pending EXCEPT !.metadata = @ + 1]
                /\ renders' = renders + 1
                /\ UNCHANGED resp
    /\ UNCHANGED <<imageCache, now, created>>
    /\ UNCHANGED <<wrapVars, layoutVars, fileVars>>

RenderStart ==
    \E transport \in Transports, image \in ImageInputs :
        RenderStartWith(transport, image)

\* handler, render, from the metadata to the awaited composite: wrapping,
\* box layout and the text canvas
RenderLayout ==
    /\ pending.metadata > 0
    /\ \E decodable \in BOOLEAN, caption \in RenderCaptions, mode \in MeasureModes :
           LET l == layout(mode, caption)
           IN  IF ~decodable \/ l.outcome = "threw"
               THEN /\ resp' = ErrorResponse(500)
                    /\ pending' = [pending EXCEPT !.metadata = @ - 1]
               ELSE IF compositeAccepts(l.box)
               THEN /\ pending' = [pending EXCEPT !.metadata = @ - 1,
                                                  !.composite = @ + 1]
                    /\ UNCHANGED resp
               ELSE /\ pending' = [pending EXCEPT !.metadata = @ - 1,
                                                  !.rejected = @ + 1]
                    /\ UNCHANGED resp
    /\ UNCHANGED <<imageCache, now, created, renders>>
    /\ UNCHANGED <<wrapVars, layoutVars, fileVars>>

\* (mutant of RenderFail) the output is stored before the composite fails
RenderFailAfterStore ==
    /\ pending.rejected > 0
    /\ pending' = [pending EXCEPT !.rejected = @ - 1]
    /\ resp' = ErrorResponse(500)
    /\ imageCache' = cachePut(imageCache, now, 1)
    /\ UNCHANGED <<now, created, renders>>
    /\ UNCHANGED <<wrapVars, layoutVars, fileVars>>

\* handler, render, composite failed: the catch block throws, 500
RenderFail ==
    /\ pending.rejected > 0
    /\ pending' = [pending EXCEPT !.rejected = @ - 1]
    /\ resp' = ErrorResponse(500)
    /\ UNCHANGED <<imageCache, now, created, renders>>
    /\ UNCHANGED <<wrapVars, layoutVars, fileVars>>

\* (mutant of RenderFinish) the cleanup runs before the new entry is stored
RenderFinishCleanupFirst ==
    /\ pending.composite > 0
    /\ \E b \in Outputs :
       LET timestamp == now
       IN  /\ imageCache' = MapSet(cleanup(imageCache), imageIdOf(timestamp, b),
                                   [buffer |-> b, timestamp |-> timestamp])
           /\ created' = created \cup {imageIdOf(timestamp, b)}
           /\ resp' = RenderedResponse(imageIdOf(timestamp, b), b)
    /\ pending' = [pending EXCEPT !.composite = @ - 1]
    /\ UNCHANGED <<now, renders>>
    /\ UNCHANGED <<wrapVars, layoutVars, fileVars>>

\* handler, render, after the awaited composite and without another await:
\* the id, the cache entry, the cleanup and the answer
RenderFinish ==
    /\ pending.composite > 0
    /\ \E b \in Outputs :
       LET timestamp == now
       IN  /\ imageCache' = cachePut(imageCache, timestamp, b)
           /\ created' = created \cup {imageIdOf(timestamp, b)}
           /\ resp' = RenderedResponse(imageIdOf(timestamp, b), b)
    /\ pending' = [pending EXCEPT !.composite = @ - 1]
    /\ UNCHANGED <<now, renders>>
    /\ UNCHANGED <<wrapVars, layoutVars, fileVars>>

Next ==
    \/ Tick
    \/ ClockStepBack
    \/ Retrieve
    \/ RenderStart
    \/ RenderLayout
    \/ RenderFail
    \/ RenderFinish

Spec == Init /\ [][Next]_vars

\* -------------------------------------- specification of the temp files
\* The files /tmp starts with: one of each name of TempNames, written at
\* time 0 or a millisecond later.  The clock starts maxAge after time 0,
\* when the oldest files are exactly 24 hours old.
FileAt(name, late) ==
    [path |-> tempPathOf(name),
     mtime |-> IF late THEN 1 ELSE 0,
     bytes |-> IF late THEN 2 ELSE 1]

LastReading == maxAge + 2

\* renders of the file-backed handler in a run
MaxWrites == 1

\* what serve-temp is asked for besides the names in /tmp and the names
\* the render returned: names that miss the format by the digits, by a hex
\* digit or by the length of the hex run, and a stored name behind one more
\* path segment
OtherRequests ==
    {OverlayPrefix \o <<"-">> \o Hash(1) \o JpgSuffix,
     OverlayPrefix \o <<"1", "-">> \o Tail(Hash(1)) \o <<"A">> \o JpgSuffix,
     OverlayPrefix \o <<"1", "-">> \o Tail(Hash(1)) \o JpgSuffix,
     <<"x", "/">> \o overlayFilename(0, 1)}

FileInit ==
    /\ \E late \in SUBSET {n \in TempNames : matchesFilenameFormat(n)} :
           tmpFiles = {FileAt(n, n \in late) : n \in TempNames}
    /\ fileClock = maxAge
    /\ FileHandlersIdle
    /\ WrapIdle
    /\ LayoutIdle
    /\ ServerIdle

\* a millisecond passes
FileTick ==
    /\ fileClock < LastReading
    /\ fileClock' = fileClock + 1
    /\ UNCHANGED <<tmpFiles, sweepPc, sweepNow, sweepTodo, sweepFile, sweepCount,
                   sweepTotal, sweepResp, servePc, serveName, tempResp, swept, written>>
    /\ UNCHANGED <<wrapVars, layoutVars, serverVars>>

\* file-backed render, after the composite: Date.now(), the hash, the file
\* name, fs.writeFile(tempPath, outputBuffer), the answer with the name
WriteOverlay ==
    /\ Cardinality(written) < MaxWrites
    /\ \E b \in Outputs :
           LET filename == overlayFilename(fileClock, b)
               tempPath == tempPathOf(filename)
           IN  /\ tmpFiles' = {f \in tmpFiles : f.path # tempPath}
                               \cup {[path |-> tempPath, mtime |-> fileClock, bytes |-> b]}
               /\ written' = written \cup {filename}
    /\ UNCHANGED <<fileClock, sweepPc, sweepNow, sweepTodo, sweepFile, sweepCount,
                   sweepTotal, sweepResp, servePc, serveName, tempResp, swept>>
    /\ UNCHANGED <<wrapVars, layoutVars, serverVars>>

\* cleanup: Date.now(), readdir, the filter, the counters
SweepStart ==
    /\ sweepPc = "idle"
    /\ sweepNow' = fileClock
    /\ sweepTodo' = {n \in FileNames(tmpFiles) : isOverlayFile(n)}
    /\ sweepCount' = 0
    /\ sweepTotal' = Cardinality({n \in FileNames(tmpFiles) : isOverlayFile(n)})
    /\ sweepPc' = "stat"
    /\ UNCHANGED <<tmpFiles, fileClock, sweepFile, sweepResp, servePc, serveName,
                   tempResp, swept, written>>
    /\ UNCHANGED <<wrapVars, layoutVars, serverVars>>

\* (mutant of SweepStat) a file is expired from the age maxAge on
SweepStatFromMaxAge ==
    /\ sweepPc = "stat"
    /\ \E file \in sweepTodo :
           /\ sweepTodo' = sweepTodo \ {file}
           /\ sweepFile' = file
           /\ IF file \in FileNames(tmpFiles)
              THEN LET fileAge == sweepNow - FileNamed(tmpFiles, file).mtime
                   IN  sweepPc' = IF fileAge >= maxAge THEN "unlink" ELSE "stat"
              ELSE sweepPc' = "stat"
    /\ UNCHANGED <<tmpFiles, fileClock, sweepNow, sweepCount, sweepTotal, sweepResp,
                   servePc, serveName, tempResp, swept, written>>
    /\ UNCHANGED <<wrapVars, layoutVars, serverVars>>

\* cleanup: the next file of the loop, its stat and the test of its age;
\* a stat that throws is caught and the loop goes on
SweepStat ==
    /\ sweepPc = "stat"
    /\ \E file \in sweepTodo :
           /\ sweepTodo' = sweepTodo \ {file}
           /\ sweepFile' = file
           /\ IF file \in FileNames(tmpFiles)
              THEN LET fileAge == sweepNow - FileNamed(tmpFiles, file).mtime
                   IN  sweepPc' = IF fileAge > maxAge THEN "unlink" ELSE "stat"
              ELSE sweepPc' = "stat"
    /\ UNCHANGED <<tmpFiles, fileClock, sweepNow, sweepCount, sweepTotal, sweepResp,
                   servePc, serveName, tempResp, swept, written>>
    /\ UNCHANGED <<wrapVars, layoutVars, serverVars>>

\* cleanup: unlink of the expired file; an unlink that throws is caught
SweepUnlink ==
    /\ sweepPc = "unlink"
    /\ IF sweepFile \in FileNames(tmpFiles)
       THEN /\ tmpFiles' = {f \in tmpFiles : f.path # tempPathOf(sweepFile)}
            /\ sweepCount' = sweepCount + 1
            /\ swept' = swept \cup {sweepFile}
       ELSE UNCHANGED <<tmpFiles, sweepCount, swept>>
    /\ sweepPc' = "stat"
    /\ UNCHANGED <<fileClock, sweepNow, sweepTodo, sweepFile, sweepTotal, sweepResp,
                   servePc, serveName, tempResp, written>>
    /\ UNCHANGED <<wrapVars, layoutVars, serverVars>>

\* cleanup: the loop is over, the answer
SweepEnd ==
    /\ sweepPc = "stat"
    /\ sweepTodo = {}
    /\ sweepResp' = SweepResponse(200, sweepCount, sweepTotal)
    /\ sweepPc' = "idle"
    /\ UNCHANGED <<tmpFiles, fileClock, sweepNow, sweepTodo, sweepFile, sweepCount,
                   sweepTotal, servePc, serveName, tempResp, swept, written>>
    /\ UNCHANGED <<wrapVars, layoutVars, serverVars>>

\* serve-temp: the check of the name and fs.access
ServeStart ==
    /\ servePc = "idle"
    /\ \E requested \in TempNames \cup written \cup OtherRequests :
           LET filename == PathPop(FunctionPath \o requested)
               tempPath == tempPathOf(filename)
           IN  /\ serveName' = filename
               /\ IF ~matchesFilenameFormat(filename)
                  THEN /\ tempResp' = TempResponse(400, filename, 0)
                       /\ servePc' = "idle"
                  ELSE IF tempPath \notin Paths(tmpFiles)
                  THEN /\ tempResp' = TempResponse(404, filename, 0)
                       /\ servePc' = "idle"
                  ELSE /\ tempResp' = tempResp
                       /\ servePc' = "read"
    /\ UNCHANGED <<tmpFiles, fileClock, sweepPc, sweepNow, sweepTodo, sweepFile,
                   sweepCount, sweepTotal, sweepResp, swept, written>>
    /\ UNCHANGED <<wrapVars, layoutVars, serverVars>>

\* serve-temp: fs.readFile and the answer; a readFile that throws is
\* caught by the handler's catch
ServeRead ==
    /\ servePc = "read"
    /\ tempResp' =
           IF tempPathOf(serveName) \in Paths(tmpFiles)
           THEN TempResponse(200, serveName,
                             FileAtPath(tmpFiles, tempPathOf(serveName)).bytes)
           ELSE TempResponse(500, serveName, 0)
    /\ servePc' = "idle"
    /\ UNCHANGED <<tmpFiles, fileClock, sweepPc, sweepNow, sweepTodo, sweepFile,
                   sweepCount, sweepTotal, sweepResp, serveName, swept, written>>
    /\ UNCHANGED <<wrapVars, layoutVars, serverVars>>

FileNext ==
    \/ FileTick
    \/ WriteOverlay
    \/ SweepStart
    \/ SweepStat
    \/ SweepUnlink
    \/ SweepEnd
    \/ ServeStart
    \/ ServeRead

SpecFile == FileInit /\ [][FileNext]_vars

\* =================================================== claims on wrapText
\* the words of a string once whitespace is collapsed
WordsOf(s) == SelectSeq(Split(s), LAMBDA w : w # <<>>)

WrapDone == wPc = "done"

\* C7: wrapText returns at least one line, and the returned lines joined
\* with single spaces hold the words of the caption, in order, none lost
\* or duplicated, whatever maxWidth is and however measurement behaves.
C7_WrapKeepsWords ==
    WrapDone =>
        /\ ~wResult.threw
        /\ Len(wResult.lines) >= 1
        /\ WordsOf(Join(wResult.lines)) = WordsOf(wText)

\* C7 witness: a degraded-measurement split and a caption of several
\* non-empty words
C7_Witness ==
    /\ WrapDone
    /\ wMode = "zero"
    /\ Len(WordsOf(wText)) >= 5
    /\ Len(wResult.lines) = 2

\* C8: with measurement detected as reliable, every returned line measures
\* at most maxWidth, except a line made of one single word.
C8_LinesFit ==
    (WrapDone /\ canMeasure(wMode, wText)) =>
        \A k \in 1..Len(wResult.lines) :
            \/ Le(measureText(wMode, wResult.lines[k]), Px(wMaxWidth))
            \/ Len(Split(wResult.lines[k])) = 1

\* C8 witness: a greedy result with a word wider than maxWidth alone on a
\* line and a line of several words
C8_Witness ==
    /\ WrapDone
    /\ canMeasure(wMode, wText)
    /\ Len(wResult.lines) >= 3
    /\ \E k \in 1..Len(wResult.lines) :
           /\ Len(Split(wResult.lines[k])) = 1
           /\ measureText(wMode, wResult.lines[k]) > Px(wMaxWidth)
    /\ \E k \in 1..Len(wResult.lines) : Len(Split(wResult.lines[k])) >= 2

\* C9 as stated: a caption whose measured width is <= maxWidth comes back
\* as exactly one line, the caption.
C9_FastPathAnyWidth ==
    (WrapDone /\ ~Throws(wMode) /\ Le(measureText(wMode, wText), Px(wMaxWidth))) =>
        wResult = Returned(<<wText>>)

\* C9 amended: a caption whose measured width is a number not below the
\* sanity floor of 10 and <= maxWidth comes back as exactly one line, the
\* caption.
C9_FastPathReliable ==
    (/\ WrapDone
     /\ canMeasure(wMode, wText)
     /\ Le(measureText(wMode, wText), Px(wMaxWidth))) =>
        wResult = Returned(<<wText>>)

\* C9 witness: a caption of at least four words that fits on one line
C9_Witness ==
    /\ WrapDone
    /\ canMeasure(wMode, wText)
    /\ Le(measureText(wMode, wText), Px(wMaxWidth))
    /\ Len(Split(wText)) >= 4
    /\ wResult = Returned(<<wText>>)

\* split indices within 2 words of the midpoint where both lines fit
FittingSplits(words, maxWidth) ==
    {i \in 1..(Len(words) - 1) :
        /\ Abs(i - (Len(words) \div 2)) <= 2
        /\ Le(SumWidth(Join(SubSeq(words, 1, i))), Px(maxWidth))
        /\ Le(SumWidth(Join(SubSeq(words, i + 1, Len(words)))), Px(maxWidth))}

WidthDifference(words, i) ==
    Abs(SumWidth(Join(SubSeq(words, 1, i)))
        - SumWidth(Join(SubSeq(words, i + 1, Len(words)))))

\* C10: with reliable measurement a caption of at least 4 words that does
\* not fit on one line comes back as 2 lines, split at an index within 2
\* words of floor(wordCount/2) that has the least width difference among
\* those where both lines fit; when there is none, as the greedy wrapping.
C10_BalancedSplit ==
    (/\ WrapDone
     /\ canMeasure(wMode, wText)
     /\ Len(Split(wText)) >= 4
     /\ ~Le(measureText(wMode, wText), Px(wMaxWidth))) =>
        LET words == Split(wText)
            fitting == FittingSplits(words, wMaxWidth)
        IN  IF fitting = {}
            THEN wResult = Greedy(wMode, words, wMaxWidth)
            ELSE /\ ~wResult.threw
                 /\ Len(wResult.lines) = 2
                 /\ \E i \in fitting :
                        /\ wResult.lines = <<Join(SubSeq(words, 1, i)),
                                             Join(SubSeq(words, i + 1, Len(words)))>>
                        /\ \A j \in fitting :
                               WidthDifference(words, i) <= WidthDifference(words, j)

\* C10 witness: an 8-word caption split in two away from the midpoint,
\* while an index outside the window would have fitted as well
C10_Witness ==
    /\ WrapDone
    /\ canMeasure(wMode, wText)
    /\ Len(Split(wText)) = 8
    /\ Len(wResult.lines) = 2
    /\ Len(Split(wResult.lines[1])) = 6
    /\ FittingSplits(Split(wText), wMaxWidth) # {}

\* measurement of the caption is unreliable: measureText throws, or the
\* width is NaN or below the sanity floor of 10
MeasurementUnreliable ==
    \/ Throws(wMode)
    \/ IsNaN(measureText(wMode, wText))
    \/ measureText(wMode, wText) < Px(SanityFloor)

\* C11: with unreliable measurement a caption of at least 2 words comes
\* back as exactly 2 lines, the first floor(wordCount/2) words and the
\* rest, whatever maxWidth is and whatever the widths of the two lines
\* are (no width is compared to decide the split).
C11_DegradedSplit ==
    (WrapDone /\ MeasurementUnreliable /\ Len(Split(wText)) >= 2) =>
        LET words == Split(wText)
            half == Len(words) \div 2
        IN  wResult = Returned(<<Join(SubSeq(words, 1, half)),
                                 Join(SubSeq(words, half + 1, Len(words)))>>)

\* C11 witness: widths of 0, a caption of five non-empty words, split 2 + 3
C11_Witness ==
    /\ WrapDone
    /\ wMode = "zero"
    /\ Split(wText) = WordsOf(wText)
    /\ Len(Split(wText)) = 5
    /\ Len(wResult.lines) = 2
    /\ Len(Split(wResult.lines[1])) = 2
    /\ Len(Split(wResult.lines[2])) = 3

\* wrapText took the greedy path: the caption does not come back from the
\* one-line test, the balanced split or the split for unreliable
\* measurement
GreedyPath ==
    LET words == Split(wText)
    IN  /\ WrapDone
        /\ IF MeasurementUnreliable THEN Len(words) <= 1
           ELSE /\ ~Le(measureText(wMode, wText), Px(wMaxWidth))
                /\ Len(words) < 4 \/ FittingSplits(words, wMaxWidth) = {}

\* index of the first word of line k, from the word counts of the lines
\* before it
RECURSIVE FirstWordOf(_, _)
FirstWordOf(lines, k) ==
    IF k = 1 THEN 1 ELSE FirstWordOf(lines, k - 1) + Len(Split(lines[k - 1]))

\* C27: on the greedy path the next word is appended to the current line
\* exactly when measure(currentLine + ' ' + word) is strictly less than
\* maxWidth, and otherwise the current line is emitted and the word starts
\* a new line; an empty caption yields exactly one line, the empty string.
C27_GreedyStrict ==
    /\ GreedyPath =>
           LET words == Split(wText)
               lines == wResult.lines
               first(k) == FirstWordOf(lines, k)
               upTo(k, i) == measureText(wMode, Join(SubSeq(words, first(k), i)))
           IN  /\ ~wResult.threw
               /\ first(Len(lines) + 1) = Len(words) + 1
               /\ \A k \in 1..Len(lines) :
                      /\ lines[k] = Join(SubSeq(words, first(k), first(k + 1) - 1))
                      /\ \A i \in (first(k) + 1)..(first(k + 1) - 1) :
                             Lt(upTo(k, i), Px(wMaxWidth))
                      /\ k < Len(lines) => ~Lt(upTo(k, first(k + 1)), Px(wMaxWidth))
    /\ (WrapDone /\ wText = <<>>) => wResult = Returned(<< <<>> >>)

\* C27 witness: a greedy result of three lines or more, with a line of
\* several words, and a line that was emitted although the next word
\* would have brought it to exactly maxWidth
C27_Witness ==
    /\ GreedyPath
    /\ ~MeasurementUnreliable
    /\ Len(wResult.lines) >= 3
    /\ \E k \in 1..Len(wResult.lines) : Len(Split(wResult.lines[k])) >= 2
    /\ \E k \in 1..(Len(wResult.lines) - 1) :
           measureText(wMode, wResult.lines[k] \o <<Space>>
                                  \o Split(wResult.lines[k + 1])[1])
               = Px(wMaxWidth)

\* ================================================ claims on the layout
\* C1: the label box lies on the canvas: 0 <= boxLeft,
\* boxLeft + boxWidth <= outputWidth, 0 <= boxTop and
\* boxTop + boxHeight <= outputHeight, for every caption.
C1_BoxOnCanvas ==
    lPc = "ok" =>
        /\ 0 <= lBox.boxLeft
        /\ lBox.boxLeft + lBox.boxWidth <= outputWidth
        /\ 0 <= lBox.boxTop
        /\ lBox.boxTop + lBox.boxHeight <= outputHeight

\* the box lies on the canvas
OnCanvas(box) ==
    /\ 0 <= box.boxLeft
    /\ box.boxLeft + box.boxWidth <= outputWidth
    /\ 0 <= box.boxTop
    /\ box.boxTop + box.boxHeight <= outputHeight

LayoutDone == lPc # "start"

\* C12: when measureText returns 0 for every string the layout completes
\* without error for every caption, the box width comes from the estimate
\* (characters of the longest line * fontSize * 0.6), the box lies on the
\* canvas and its layer is accepted by the composite.
C12_ZeroWidthsLayout ==
    (LayoutDone /\ lMode = "zero") =>
        LET lines == wrapText(lMode, lCaption, maxTextWidth).lines
        IN  /\ lPc = "ok"
            /\ lBox.boxWidth = Min(LongestLength(lines) * EstimatedCharWidth
                                       + (padding * 2), maxBoxWidth)
            /\ OnCanvas(lBox)
            /\ compositeAccepts(lBox)

\* C12 witness: widths of 0, a two-line box whose width is the estimate,
\* below the cap
C12_Witness ==
    /\ lPc = "ok"
    /\ lMode = "zero"
    /\ lBox.lines = 2
    /\ lBox.boxWidth > 2 * padding
    /\ lBox.boxWidth < maxBoxWidth

\* measurement is degraded for the request: widths of 0, NaN widths, or
\* measureText throwing
DegradedModes == {"zero", "nan", "throw"}

\* C13: when measurement is degraded the layout of a render request
\* completes (no exception reaches the handler's catch, which answers 500).
C13_DegradedNeverFails ==
    (LayoutDone /\ lMode \in DegradedModes) => lPc = "ok"

\* the wrapped lines of the caption of the layout
LayoutLines == wrapText(lMode, lCaption, maxTextWidth).lines

\* the measured widths of the wrapped lines, in width units
LineWidths == {measureText(lMode, LayoutLines[k]) : k \in 1..Len(LayoutLines)}

\* L of C17 in width units: the largest measured width, or the estimate
\* when that is NaN or below 10
LargestOrEstimate ==
    LET largest == CHOOSE w \in LineWidths : \A v \in LineWidths : v <= w
        longest == CHOOSE c \in {StrLen(LayoutLines[k]) : k \in 1..Len(LayoutLines)} :
                       \A k \in 1..Len(LayoutLines) : StrLen(LayoutLines[k]) <= c
    IN  IF NaN \in LineWidths \/ largest < SanityFloor * WidthScale
        THEN longest * 18 * WidthScale
        ELSE largest

\* C17: boxWidth = min(ceil(L) + 2 * padding, outputWidth - 20), with L the
\* largest measured line width or, when that is below 10 or NaN, the
\* estimate (characters of the longest line) * fontSize * 0.6; boxWidth
\* never exceeds outputWidth - 20.
C17_BoxWidth ==
    lPc = "ok" =>
        LET ceilL == -((-LargestOrEstimate) \div WidthScale)
            wanted == ceilL + (2 * padding)
        IN  /\ lBox.boxWidth = IF wanted <= outputWidth - 20 THEN wanted
                               ELSE outputWidth - 20
            /\ lBox.boxWidth <= outputWidth - 20

\* C17 witness: a measured width with a fraction of a pixel, rounded up,
\* in a box narrower than the cap
C17_Witness ==
    /\ lPc = "ok"
    /\ lMode = "ok"
    /\ LargestOrEstimate % WidthScale # 0
    /\ LargestOrEstimate >= SanityFloor * WidthScale
    /\ lBox.boxWidth = (LargestOrEstimate \div WidthScale) + 1 + (2 * padding)
    /\ lBox.boxWidth < outputWidth - 20

\* lineHeight of C18: fontSize * 1.2
SpecLineHeight == (fontSize * 12) \div 10

\* C18: boxHeight = lineCount * lineHeight + lineSpacing * (lineCount - 1)
\* + 2 * padding with lineHeight = fontSize * 1.2, for every line count
\* from 1 on.
C18_BoxHeight ==
    lPc = "ok" =>
        lBox.boxHeight = (lBox.lines * SpecLineHeight)
                         + (lineSpacing * (lBox.lines - 1)) + (2 * padding)

\* shiftUp values C19 is checked for, besides the handler's own
ShiftUps == {0, 1, overlayPixelShiftUp, 100, outputHeight}

\* C19: when the box fits on the canvas (boxWidth <= outputWidth and
\* 0 <= shiftUp <= outputHeight - boxHeight) the position is
\* boxLeft = round((outputWidth - boxWidth) / 2), halves rounded up, and
\* boxTop = outputHeight - boxHeight - shiftUp: the clamping changes nothing.
C19_CentredWhenFits ==
    (lPc = "ok" /\ lBox.boxWidth <= outputWidth) =>
        /\ (2 * lBox.boxLeft) - (outputWidth - lBox.boxWidth) \in {0, 1}
        /\ overlayPixelShiftUp <= outputHeight - lBox.boxHeight =>
               lBox.boxTop = outputHeight - lBox.boxHeight - overlayPixelShiftUp
        /\ \A shiftUp \in ShiftUps :
               shiftUp <= outputHeight - lBox.boxHeight =>
                   boxTopOf(lBox.boxHeight, shiftUp)
                       = outputHeight - lBox.boxHeight - shiftUp

\* C19 witness: a two-line box that fits, with an odd margin to share
C19_Witness ==
    /\ lPc = "ok"
    /\ lBox.lines = 2
    /\ (outputWidth - lBox.boxWidth) % 2 = 1
    /\ lBox.boxTop = outputHeight - lBox.boxHeight - overlayPixelShiftUp
    /\ lBox.boxTop > 0

\* C20: the layer that is composited at (boxLeft, boxTop), the text canvas
\* of textCanvasWidth x textCanvasHeight, lies within the canvas, and the
\* composite does not fail for its size.
C20_LayerOnCanvas ==
    lPc = "ok" =>
        /\ lBox.boxLeft + textCanvasWidth(lBox) <= outputWidth
        /\ lBox.boxTop + textCanvasHeight(lBox) <= outputHeight
        /\ compositeAccepts(lBox)

\* C21: every line returned by wrapText is drawn into the label layer: the
\* number of text lines rendered equals the number of wrapped lines, in the
\* handler (where a line is rendered when fillText puts it on the text
\* canvas) and in the single-line and file-backed handlers.
C21_EveryLineDrawn ==
    (lPc = "ok" /\ lMode = "ok") =>
        LET greedy == wrapTextGreedy(lMode, lCaption, maxTextWidth).lines
        IN  /\ Cardinality(paintedCalls(fillTextCalls(LayoutLines),
                                        textCanvasHeight(lBox)))
                   = Len(LayoutLines)
            /\ Len(fillTextFirstLine(greedy, boxHeightSingleLine, 2)) = Len(greedy)
            /\ Len(fillTextFirstLine(greedy, boxHeightFileBacked, 1)) = Len(greedy)

\* C22: the block of text lines is vertically centred inside the label box:
\* the distance from the box top to the top of the first line equals, to
\* within 1 px, the distance from the bottom of the last line to the box
\* bottom, and every line lies inside the box vertically.
C22_BlockCentred ==
    (lPc = "ok" /\ lMode = "ok") =>
        LET calls == fillTextCalls(LayoutLines)
            above == calls[1].top
            below == lBox.boxHeight - (calls[Len(calls)].top + fontSize)
        IN  /\ above - below \in {-1, 0, 1}
            /\ \A k \in 1..Len(calls) :
                   /\ 0 <= calls[k].top
                   /\ calls[k].top + fontSize <= lBox.boxHeight

\* C23: whenever the font asset cannot be loaded (the registration throws or
\* reports failure) the layout still completes and the fallback family
\* 'Arial, sans-serif' is the one used for measurement and drawing; the
\* custom family is used only when the font was registered.
C23_FontFallback ==
    (LayoutDone /\ lMode = "ok") =>
        /\ lFont # "registered" =>
               /\ lPc = "ok"
               /\ lFamily = DefaultFamily
               /\ measureFontOf(lFamily) = "Arial"
               /\ drawFont = "Arial"
        /\ lFamily = CustomFamily => lFont = "registered"

\* ================================================== claims on the cache
\* the ids a retrieval request gets an image for
Retrievable == {id \in AllIds : serveImage(imageCache, id).statusCode = 200}

\* the creation timestamp an id carries
TimestampOf(id) ==
    LET dash == CHOOSE i \in 1..Len(id) : id[i] = "-" /\ \A j \in 1..(i - 1) : id[j] # "-"
    IN  CHOOSE t \in WarmEpoch..(LastWarmTime + 1) :
            Decimal(t) = SubSeq(id, 1, dash - 1)

C3_RoundTrip ==
    /\ (resp.type = "json" /\ resp.statusCode = 200) =>
           /\ serveImage(imageCache, resp.imageId).statusCode = 200
           /\ FromBase64(serveImage(imageCache, resp.imageId).body) = resp.rendered
    /\ \A id \in AllIds \ created :
           serveImage(imageCache, id) = ErrorResponse(404)

C5_EntriesImmutable ==
    [][\A id \in created :
           \/ serveImage(imageCache', id) = ErrorResponse(404)
           \/ serveImage(imageCache', id) = serveImage(imageCache, id)]_vars

\* C14: a step that answers a render request with an error (400 or 500)
\* answers with an error body only, no image bytes and no image id, and
\* leaves the cache as it was; the cache changes only in a step that
\* answers 200 with the id of the stored output.
C14_FailureLeavesCache ==
    [][/\ ((resp' # resp /\ resp'.statusCode \in {400, 500}) =>
               /\ resp'.type = "error"
               /\ resp'.imageId = NoId
               /\ resp'.body = NoBody
               /\ imageCache' = imageCache)
       /\ (imageCache' # imageCache =>
               /\ resp'.statusCode = 200
               /\ resp'.type = "json"
               /\ resp'.imageId \in Keys(imageCache') \cup created')]_vars

\* C14 witness: a render request has been answered 500 while the cache
\* holds entries and another render request is in flight
C14_Witness ==
    /\ resp = ErrorResponse(500)
    /\ Len(imageCache) = CacheLimit
    /\ InFlight >= 1

\* C15: a render request whose image is missing or empty is answered 400
\* 'No image data provided', not 500, and stores nothing in the cache.
C15_MissingImageIs400 ==
    [][\A transport \in Transports, image \in {"none", "empty"} :
           RenderStartWith(transport, image) =>
               /\ resp' = ErrorResponse(400)
               /\ resp'.error = "No image data provided"
               /\ imageCache' = imageCache]_vars

\* C16: a render that completes at a creation timestamp other than the one
\* of an earlier render receives an id different from that render's,
\* whatever the two outputs are; the id is the timestamp in decimal, "-",
\* and the content hash of the output, and nothing else goes into it.
C16_DistinctIds ==
    [][RenderFinish =>
           /\ \A t \in WarmEpoch..(LastWarmTime + 1), b \in Outputs :
                  t # now => imageIdOf(t, b) # resp'.imageId
           /\ resp'.imageId = Decimal(now) \o <<"-">> \o Hash(resp'.rendered)]_vars

\* C16 witness: the cache holds two entries with the same output bytes
\* stored at different timestamps, with one digit and with two digits
C16_Witness ==
    \E i, j \in 1..Len(imageCache) :
        /\ imageCache[i].value.buffer = imageCache[j].value.buffer
        /\ imageCache[i].value.timestamp < 10
        /\ imageCache[j].value.timestamp >= 10
        /\ imageCache[j].value.timestamp = now
        /\ resp.type = "json"
        /\ resp.imageId = imageCache[j].id

\* C24: a retrieval (serve=image with an id) never inserts, removes,
\* reorders or refreshes a cache entry: it leaves the Map, the ids it holds
\* and their timestamps as they are, and touches nothing a later eviction
\* depends on (the clock, the renders in flight).
C24_RetrievalLeavesCache ==
    [][Retrieve => /\ imageCache' = imageCache
                   /\ Retrievable' = Retrievable
                   /\ <<pending, now, created, renders>>'
                          = <<pending, now, created, renders>>]_vars

\* C24 witness: a retrieval answered with an image from a full cache, after
\* a render of this run evicted an entry
C24_Witness ==
    /\ resp.type = "image"
    /\ Len(imageCache) = CacheLimit
    /\ renders > 0
    /\ Cardinality(created) > CacheLimit

\* C26: every successful render produces an output image of exactly
\* 1080 x 607 pixels.
C26_OutputIs1080x607 ==
    (resp.statusCode = 200 /\ resp.type = "json") =>
        outputSize = [width |-> 1080, height |-> 607]

\* C28: the eviction never removes the entry that the same request has just
\* inserted: the id returned by a successful render is in the cache when
\* the response is returned, for every cache state and every value of the
\* clock.
C28_InsertedSurvives ==
    [][RenderFinish => resp'.imageId \in Keys(imageCache')]_vars

\* C29: the overlay handler is total: for every event (render or
\* retrieval, valid or malformed) the promise resolves with a response
\* whose statusCode is one of 200, 400, 404 or 500; it never rejects or
\* throws to the caller.
C29_HandlerTotal ==
    resp # NoResponse =>
        /\ resp.statusCode \in {200, 400, 404, 500}
        /\ resp.type \in {"json", "image", "error"}
        /\ resp.type = "error" <=> resp.statusCode \in {400, 404, 500}

\* C29 witness: every render of the run has been answered, the last one
\* with 500
C29_Witness ==
    /\ renders = MaxRenders
    /\ InFlight = 0
    /\ resp = ErrorResponse(500)

\* ============================================= claims on the temp files
\* the name of a file of /tmp
NameOf(f) == PathPop(f.path)

\* C25: one run of the cleanup deletes every file named overlay-*.jpg
\* whose age (sweep start time minus modification time) is greater than
\* 24 hours, and leaves every overlay file of age <= 24 hours and every
\* file not named overlay-*.jpg: an unlink removes only expired overlay
\* files, no other step of the cleanup changes a file, and when the run
\* ends no expired overlay file is left.
C25_SweepDeletesExpired ==
    [][/\ SweepUnlink =>
              \A f \in tmpFiles \ tmpFiles' :
                  /\ startsWith(NameOf(f), OverlayPrefix)
                  /\ endsWith(NameOf(f), JpgSuffix)
                  /\ sweepNow - f.mtime > 24 * 60 * 60 * 1000
       /\ (SweepStart \/ SweepStat \/ SweepUnlink \/ SweepEnd) =>
              tmpFiles' \subseteq tmpFiles
       /\ SweepEnd =>
              \A f \in tmpFiles' :
                  (startsWith(NameOf(f), OverlayPrefix) /\ endsWith(NameOf(f), JpgSuffix))
                      => sweepNow - f.mtime <= 24 * 60 * 60 * 1000]_vars

\* C25 witness: a run of the cleanup has ended; it deleted a file, left an
\* overlay file that was exactly 24 hours old when it started and left an
\* older file that is not an overlay file
C25_Witness ==
    /\ sweepPc = "idle"
    /\ sweepResp.statusCode = 200
    /\ sweepResp.deletedCount >= 1
    /\ \E f \in tmpFiles : isOverlayFile(NameOf(f)) /\ sweepNow - f.mtime = maxAge
    /\ \E f \in tmpFiles : ~isOverlayFile(NameOf(f)) /\ sweepNow - f.mtime > maxAge

\* C30: every file name the file-backed render generates passes the
\* serve-temp validation and is resolved to the /tmp path that was written,
\* so a stored and unswept file is served with status 200 and identical
\* bytes; every name that does not match ^overlay-\d+-[a-f0-9]{8}\.jpg$ is
\* rejected with 400 without any file being accessed.
C30_NameAgreement ==
    /\ [](\A filename \in written :
              /\ matchesFilenameFormat(filename)
              /\ tempPathOf(PathPop(FunctionPath \o filename)) = tempPathOf(filename)
              /\ filename \notin swept => tempPathOf(filename) \in Paths(tmpFiles))
    /\ [](servePc = "read" => matchesFilenameFormat(serveName))
    /\ [][/\ ServeStart =>
                 IF ~matchesFilenameFormat(serveName')
                 THEN tempResp'.statusCode = 400 /\ servePc' = "idle"
                 ELSE (tempPathOf(serveName') \in Paths(tmpFiles)) <=> servePc' = "read"
          /\ (ServeRead /\ tempPathOf(serveName) \in Paths(tmpFiles)) =>
                 /\ tempResp'.statusCode = 200
                 /\ FromBase64(tempResp'.body)
                        = FileAtPath(tmpFiles, tempPathOf(serveName)).bytes]_vars

\* C30 witness: a file the render wrote has been served with its bytes
C30_Witness ==
    /\ tempResp.statusCode = 200
    /\ tempResp.name \in written
    /\ tempPathOf(tempResp.name) \in Paths(tmpFiles)
    /\ \E b \in Outputs :
           /\ FromBase64(tempResp.body) = b
           /\ FileAtPath(tmpFiles, tempPathOf(tempResp.name)).bytes = b

\* C6: a retrieval of a validly named file that the sweep has removed
\* answers 404, also when the file is removed between the retrieval's
\* existence check and its read; it never answers with an error.
C6_SweptIsNotFound ==
    [][((ServeStart \/ ServeRead)
            /\ servePc' = "idle"
            /\ matchesFilenameFormat(serveName')
            /\ serveName' \in swept)
        => tempResp'.statusCode = 404]_vars

====
